---- MODULE Spec2Model ----
(***************************************************************************)
(* Model of the GitHub webhook receiver of src/src/main.rs: the signature  *)
(* verifier (verify_signature), the payload decoder (the serde shapes of   *)
(* WebhookPayload and its sub-objects) and the handler handle_webhook      *)
(* with its event dispatch.                                                *)
(*                                                                         *)
(* Conventions.  A byte string is a sequence of small integers.  A Rust    *)
(* &str that the code inspects character by character (the signature       *)
(* header) is a sequence of character codes; a &str that the code only     *)
(* compares and formats (event kind, action, log text) is a TLA+ string.   *)
(* Option<T> is None or Some(v); Result<T, E> is a record with an ok flag. *)
(***************************************************************************)
EXTENDS Integers, Sequences, FiniteSets, TLC

VARIABLES webhook_secret, slots, call

vars == <<webhook_secret, slots, call>>

(***************************************************************************)
(* Bounds of the model.                                                    *)
(***************************************************************************)
MaxByte == 2          \* body bytes range over 0..MaxByte
MaxBodyLen == 3       \* a body holds at most this many bytes
MaxSecretLen == 1     \* a secret holds at most this many characters
DigestLen == 2        \* bytes of a digest (32 for SHA-256)
MaxInFlight == 2      \* requests handled concurrently

(***************************************************************************)
(* Option and Result.                                                      *)
(***************************************************************************)
None == [some |-> FALSE]

Some(v) == [some |-> TRUE, val |-> v]

Ok(v) == [ok |-> TRUE, val |-> v]

Err(e) == [ok |-> FALSE, err |-> e]

(***************************************************************************)
(* Byte strings.                                                           *)
(***************************************************************************)
Byte == 0..MaxByte

SeqsUpTo(S, n) == UNION {[1..k -> S] : k \in 0..n}

Payloads == SeqsUpTo(Byte, MaxBodyLen)

\* A secret is a String taken from the command line or the environment
\* (Args.secret): any characters but NUL, the empty string included.
SecretChar == {1, 2}

Secrets == SeqsUpTo(SecretChar, MaxSecretLen)

RECURSIVE Power(_, _)
Power(b, n) == IF n = 0 THEN 1 ELSE b * Power(b, n - 1)

(***************************************************************************)
(* HMAC-SHA256 (the hmac and sha2 crates): a keyed function of the key and *)
(* the message into DigestLen bytes, without collisions on the bounded     *)
(* keys and messages.  The pair (key, message) is numbered injectively,    *)
(* the number is scrambled by an odd multiplier (a bijection modulo a      *)
(* power of two) and written as DigestLen bytes, most significant first.   *)
(***************************************************************************)
Radix == MaxByte + 1

RECURSIVE SeqCode(_)
SeqCode(s) ==
    IF s = <<>> THEN 0
    ELSE SeqCode(SubSeq(s, 1, Len(s) - 1)) * Radix + s[Len(s)] + 1

RECURSIVE CodeSpan(_)
CodeSpan(n) == IF n = 0 THEN 1 ELSE Power(Radix, n) + CodeSpan(n - 1)

DigestSpace == Power(256, DigestLen)

Scramble(n) == (n * 40503) % DigestSpace

RECURSIVE ToBytes(_, _)
ToBytes(n, len) ==
    IF len = 0 THEN <<>>
    ELSE Append(ToBytes(n \div 256, len - 1), n % 256)

hmac_sha256(key, msg) ==
    ToBytes(Scramble(SeqCode(key) * CodeSpan(MaxBodyLen) + SeqCode(msg)), DigestLen)

(***************************************************************************)
(* The hex crate: encode writes two lower-case digits per byte; decode     *)
(* accepts both cases and fails on an odd length or a non-hex character.   *)
(***************************************************************************)
HexDigits == <<48, 49, 50, 51, 52, 53, 54, 55, 56, 57, 97, 98, 99, 100, 101, 102>>

RECURSIVE hex_encode(_)
hex_encode(bytes) ==
    IF bytes = <<>> THEN <<>>
    ELSE <<HexDigits[(Head(bytes) \div 16) + 1], HexDigits[(Head(bytes) % 16) + 1]>>
         \o hex_encode(Tail(bytes))

HexVal(c) ==
    IF c \in 48..57 THEN c - 48
    ELSE IF c \in 97..102 THEN c - 87
    ELSE IF c \in 65..70 THEN c - 55
    ELSE -1

hex_decode(chars) ==
    IF Len(chars) % 2 # 0 THEN Err("OddLength")
    ELSE IF \E i \in 1..Len(chars) : HexVal(chars[i]) = -1 THEN Err("InvalidHexCharacter")
    ELSE Ok([i \in 1..(Len(chars) \div 2) |->
                HexVal(chars[2 * i - 1]) * 16 + HexVal(chars[2 * i])])

(***************************************************************************)
(* verify_signature (main.rs 85-103).  HMAC takes a key of any length, so  *)
(* new_from_slice does not fail and the arm of line 94 is never taken.     *)
(***************************************************************************)
\* "sha256="
Sha256Prefix == <<115, 104, 97, 50, 53, 54, 61>>

starts_with(s, prefix) ==
    /\ Len(s) >= Len(prefix)
    /\ SubSeq(s, 1, Len(prefix)) = prefix

\* Mac::verify_slice: the lengths agree and so does every byte.
verify_slice(mac, expected) ==
    /\ Len(expected) = Len(mac)
    /\ \A i \in 1..Len(mac) : expected[i] = mac[i]

\* &signature[6..]: the slice starts one character early and keeps the "=".
verify_signature_slice_off_by_one(secret, payload, signature) ==
    IF ~starts_with(signature, Sha256Prefix) THEN FALSE
    ELSE LET decoded == hex_decode(SubSeq(signature, Len(Sha256Prefix), Len(signature)))
         IN  IF decoded.ok THEN verify_slice(hmac_sha256(secret, payload), decoded.val)
             ELSE FALSE

\* mac.update(secret.as_bytes()): the wrong buffer is hashed.
verify_signature_hashes_secret(secret, payload, signature) ==
    IF ~starts_with(signature, Sha256Prefix) THEN FALSE
    ELSE LET decoded == hex_decode(SubSeq(signature, Len(Sha256Prefix) + 1, Len(signature)))
         IN  IF decoded.ok THEN verify_slice(hmac_sha256(secret, secret), decoded.val)
             ELSE FALSE

verify_signature(secret, payload, signature) ==
    IF ~starts_with(signature, Sha256Prefix) THEN FALSE
    ELSE LET hex == SubSeq(signature, Len(Sha256Prefix) + 1, Len(signature))
             mac == hmac_sha256(secret, payload)
             decoded == hex_decode(hex)
         IN  IF decoded.ok THEN verify_slice(mac, decoded.val) ELSE FALSE

\* The sender's side (spec 6 and 8.1): "sha256=" and the lower-case hex digest.
sign(secret, payload) == Sha256Prefix \o hex_encode(hmac_sha256(secret, payload))

\* The payloads that differ from p in exactly one byte.
Mutations(p) ==
    {q \in [1..Len(p) -> Byte] : Cardinality({i \in 1..Len(p) : q[i] # p[i]}) = 1}

(***************************************************************************)
(* JSON texts, as serde_json reads them.  An object is the sequence of its *)
(* members in the order of the text, so a repeated key is representable.   *)
(* A text that is not well-formed is one that ends where a value is due    *)
(* (JEof stands at that place), one that holds a number literal no f64     *)
(* can hold (JHuge) or one that goes on after its value (JTrailing).       *)
(***************************************************************************)
JNull == [t |-> "null"]

JStr(s) == [t |-> "str", v |-> s]

\* an integer literal that serde_json reads as an integer: one that is not
\* negative and fits u64, or a negative one that fits i64
JNum(n) == [t |-> "num", v |-> n]

\* a literal that serde_json reads as f64: one with a fraction or an
\* exponent, -0, or an integer literal beyond u64::MAX (or below i64::MIN),
\* of a magnitude that f64 holds
JFloat(literal) == [t |-> "float", v |-> literal]

\* a number literal too large for f64 (1e999, an integer of 401 digits)
JHuge(literal) == [t |-> "huge", v |-> literal]

JArr(items) == [t |-> "arr", v |-> items]

JObj(members) == [t |-> "obj", v |-> members]

\* the text ends here, where a value is due: at its very start, after a
\* colon, after a comma, or as the first item of an array right after "["
JEof == [t |-> "eof"]

\* a whole text: the value and further characters after it
JTrailing(value) == [t |-> "trailing", v |-> value]

\* serde_json names the end of the text after what it was reading: a list
\* when the text ends right after "[", a value after a comma or a colon
EofWhileParsingList == "EOF while parsing a list"

EofWhileParsingValue == "EOF while parsing a value"

\* IgnoredAny, the value of an unknown key: it is read through and dropped.
\* No number is computed, so a literal of any size passes; the only error
\* is that of the first place, in the order of the text, where it ends.
RECURSIVE IgnoredAny(_)
IgnoredAny(v) ==
    IF v.t = "eof" THEN Err(EofWhileParsingValue)
    ELSE IF v.t \in {"arr", "obj"} THEN
        LET Item(i) == IF v.t = "arr" THEN v.v[i] ELSE v.v[i][2]
            Failing == {i \in 1..Len(v.v) : ~IgnoredAny(Item(i)).ok}
        IN  IF v.t = "arr" /\ Len(v.v) > 0 /\ v.v[1].t = "eof" THEN
                Err(EofWhileParsingList)
            ELSE IF Failing # {} THEN
                IgnoredAny(Item(CHOOSE k \in Failing : \A l \in Failing : k <= l))
            ELSE Ok(<<>>)
    ELSE Ok(<<>>)

(***************************************************************************)
(* The serde shapes (main.rs 34-72).  Each struct is the sequence of its   *)
(* fields and their types, in declaration order.                           *)
(***************************************************************************)
WebhookPayload ==
    << <<"action", "Option<String>">>,
       <<"repository", "Option<Repository>">>,
       <<"sender", "Option<User>">>,
       <<"pull_request", "Option<PullRequest>">>,
       <<"issue", "Option<Issue>">> >>

Repository ==
    << <<"name", "String">>, <<"full_name", "String">>, <<"html_url", "String">> >>

User == << <<"login", "String">>, <<"html_url", "String">> >>

PullRequest ==
    << <<"number", "u64">>, <<"title", "String">>, <<"html_url", "String">>,
       <<"state", "String">>, <<"user", "User">> >>

Issue ==
    << <<"number", "u64">>, <<"title", "String">>, <<"html_url", "String">>,
       <<"state", "String">>, <<"user", "User">> >>

StructFields(type) ==
    CASE type = "WebhookPayload" -> WebhookPayload
      [] type = "Repository" -> Repository
      [] type = "User" -> User
      [] type = "PullRequest" -> PullRequest
      [] type = "Issue" -> Issue

OptionInner(type) ==
    CASE type = "Option<String>" -> "String"
      [] type = "Option<Repository>" -> "Repository"
      [] type = "Option<User>" -> "User"
      [] type = "Option<PullRequest>" -> "PullRequest"
      [] type = "Option<Issue>" -> "Issue"

IsOption(type) ==
    type \in {"Option<String>", "Option<Repository>", "Option<User>",
              "Option<PullRequest>", "Option<Issue>"}

FieldNames(fields) == {fields[i][1] : i \in 1..Len(fields)}

FieldType(fields, name) ==
    fields[CHOOSE i \in 1..Len(fields) : fields[i][1] = name][2]

(***************************************************************************)
(* Deserialize, as serde derives it for these shapes and serde_json drives *)
(* it, checking the shape while the text is read: the error is that of the *)
(* first place, in the order of the text, that breaks the shape or where   *)
(* the text ends.  A struct is read from an object (the value of an        *)
(* unknown key read and ignored, a repeated known key refused, an absent   *)
(* Option field None, an absent field of any other type refused) or from   *)
(* an array of exactly its fields in order.  Option<T> reads null as None  *)
(* and anything else as T.  String reads a string.  u64 reads an integer   *)
(* literal from 0 to u64::MAX: a negative integer is an invalid value, and *)
(* a literal read as f64 (JFloat, every integer beyond u64::MAX included)  *)
(* is an invalid type like any value that is no number.  A number literal  *)
(* too large for f64 is out of range wherever a typed value is read.  The  *)
(* end of the text is named after what was being read.                     *)
(***************************************************************************)
RECURSIVE deserialize(_, _)
deserialize(type, v) ==
    IF v.t = "eof" THEN Err(EofWhileParsingValue)
    ELSE IF v.t = "huge" THEN Err("number out of range")
    ELSE IF type = "String" THEN
        IF v.t = "str" THEN Ok(v.v) ELSE Err("invalid type")
    ELSE IF type = "u64" THEN
        IF v.t = "num" THEN
            IF v.v >= 0 THEN Ok(v.v) ELSE Err("invalid value")
        ELSE Err("invalid type")
    ELSE IF IsOption(type) THEN
        IF v.t = "null" THEN Ok(None)
        ELSE LET inner == deserialize(OptionInner(type), v)
             IN  IF inner.ok THEN Ok(Some(inner.val)) ELSE inner
    ELSE LET fields == StructFields(type)
             names == FieldNames(fields)
         IN
         IF v.t = "obj" THEN
            LET members == v.v
                Known(i) == members[i][1] \in names
                Repeated(i) == \E j \in 1..(i - 1) : members[j][1] = members[i][1]
                Value(i) == deserialize(FieldType(fields, members[i][1]), members[i][2])
                Failing == {i \in 1..Len(members) :
                               IF Known(i) THEN Repeated(i) \/ ~Value(i).ok
                               ELSE ~IgnoredAny(members[i][2]).ok}
                Present(n) == \E i \in 1..Len(members) : members[i][1] = n
                Member(n) == CHOOSE i \in 1..Len(members) : members[i][1] = n
            IN  IF Failing # {} THEN
                    LET i == CHOOSE k \in Failing : \A l \in Failing : k <= l
                    IN  IF ~Known(i) THEN IgnoredAny(members[i][2])
                        ELSE IF Repeated(i) THEN Err("duplicate field")
                        ELSE Value(i)
                ELSE IF \E n \in names : ~Present(n) /\ ~IsOption(FieldType(fields, n)) THEN
                    Err("missing field")
                ELSE Ok([n \in names |->
                            IF Present(n) THEN Value(Member(n)).val ELSE None])
         ELSE IF v.t = "arr" THEN
            LET items == v.v
                Taken == IF Len(items) < Len(fields) THEN Len(items) ELSE Len(fields)
                Value(i) == deserialize(fields[i][2], items[i])
                Position(n) == CHOOSE i \in 1..Len(fields) : fields[i][1] = n
            IN  IF Len(items) > 0 /\ items[1].t = "eof" THEN Err(EofWhileParsingList)
                ELSE IF \E i \in 1..Taken : ~Value(i).ok THEN
                    Value(CHOOSE k \in 1..Taken :
                              ~Value(k).ok /\ \A l \in 1..(k - 1) : Value(l).ok)
                ELSE IF Len(items) < Len(fields) THEN Err("invalid length")
                ELSE IF Len(items) > Len(fields) THEN Err("trailing characters")
                ELSE Ok([n \in names |-> Value(Position(n)).val])
         ELSE Err("invalid type")

(***************************************************************************)
(* The bodies.  serde_json's reading of a text is outside the repository:  *)
(* each body of the model is a short code word, and Documents gives the    *)
(* JSON text the code word stands for: the body numbered k by SeqCode      *)
(* stands for Documents[k].  The empty body and every body beyond the      *)
(* table stand for the empty text.                                         *)
(***************************************************************************)
UserDoc(login) ==
    JObj(<< <<"login", JStr(login)>>, <<"html_url", JStr("b")>> >>)

PullRequestDoc(number) ==
    JObj(<< <<"number", number>>, <<"title", JStr("t")>>, <<"html_url", JStr("u")>>,
            <<"state", JStr("open")>>, <<"user", UserDoc("a")>> >>)

RepositoryDoc ==
    JObj(<< <<"name", JStr("nexus")>>, <<"full_name", JStr("o/nexus")>>,
            <<"html_url", JStr("r")>> >>)

\* Every combination of action (four values or absent), pull_request
\* (present or absent) and repository (present or absent).
ActionChoices == <<"opened", "closed", "synchronize", "edited">>

ComboDoc(i) ==
    LET a == ((i - 1) % 5) + 1
        pr == (((i - 1) \div 5) % 2) = 0
        repo == ((i - 1) \div 10) = 0
    IN  JObj((IF a <= Len(ActionChoices) THEN << <<"action", JStr(ActionChoices[a])>> >>
              ELSE <<>>)
             \o (IF pr THEN << <<"pull_request", PullRequestDoc(JNum(1))>> >> ELSE <<>>)
             \o (IF repo THEN << <<"repository", RepositoryDoc>> >> ELSE <<>>))

ComboDocs == [i \in 1..20 |-> ComboDoc(i)]

OtherDocs ==
    << \* unknown fields only
       JObj(<< <<"zen", JStr("z")>>, <<"hook_id", JNum(7)>> >>),
       \* pull_request.number given as a string
       JObj(<< <<"action", JStr("opened")>>,
               <<"pull_request", PullRequestDoc(JStr("1"))>> >>),
       \* an issue and a sender
       JObj(<< <<"action", JStr("opened")>>,
               <<"issue", PullRequestDoc(JNum(2))>>,
               <<"sender", UserDoc("s")>> >>),
       \* explicit nulls
       JObj(<< <<"action", JNull>>, <<"pull_request", JNull>> >>),
       \* the envelope as an array of its five fields
       JArr(<<JStr("opened"), JNull, JNull, PullRequestDoc(JNum(3)), JNull>>),
       \* an array that is too short
       JArr(<<JStr("opened")>>),
       \* a text that is a string, not an object
       JStr("opened"),
       \* a repeated key
       JObj(<< <<"action", JStr("opened")>>, <<"action", JStr("closed")>> >>),
       \* pull_request without its user
       JObj(<< <<"pull_request",
                 JObj(<< <<"number", JNum(1)>>, <<"title", JStr("t")>>,
                         <<"html_url", JStr("u")>>, <<"state", JStr("open")>> >>)>> >>),
       \* a negative and a fractional number
       JObj(<< <<"pull_request", PullRequestDoc(JNum(-1))>> >>),
       JObj(<< <<"issue", PullRequestDoc(JFloat("1.5"))>> >>),
       \* action given as a number
       JObj(<< <<"action", JNum(1)>> >>),
       \* a number one above u64::MAX
       JObj(<< <<"pull_request", PullRequestDoc(JFloat("18446744073709551616"))>> >>),
       \* the text "[1," : it breaks the shape before it ends
       JArr(<<JNum(1), JEof>>),
       \* a text that ends after the key pull_request
       JObj(<< <<"action", JStr("opened")>>, <<"pull_request", JEof>> >>),
       \* a text that ends inside the value of an unknown key
       JObj(<< <<"zen", JArr(<<JStr("z"), JEof>>)>> >>),
       \* an empty object followed by further characters
       JTrailing(JObj(<<>>)),
       \* the text "[" : it ends right after the bracket
       JArr(<<JEof>>),
       \* a number too large for f64: passed over as the value of an
       \* unknown key, refused where a u64 is due
       JObj(<< <<"hook_id", JHuge("1e999")>>,
               <<"pull_request", PullRequestDoc(JHuge("1e999"))>> >>),
       \* the text ends right after the "[" of an unknown key's value
       JObj(<< <<"id", JArr(<<JEof>>)>> >>) >>

Documents == ComboDocs \o OtherDocs

json_text(body) ==
    IF SeqCode(body) \in 1..Len(Documents) THEN Documents[SeqCode(body)] ELSE JEof

\* serde_json::from_slice::<WebhookPayload>(&body): the value is read, and
\* then the text has to end
from_slice(body) ==
    LET text == json_text(body)
        payload == deserialize("WebhookPayload",
                               IF text.t = "trailing" THEN text.v ELSE text)
    IN  IF payload.ok /\ text.t = "trailing" THEN Err("trailing characters")
        ELSE payload

(***************************************************************************)
(* Requests.  A header value is the text it carries and whether it holds   *)
(* bytes outside visible ASCII, on which HeaderValue::to_str fails.  The   *)
(* HeaderMap is read under two names only.                                 *)
(***************************************************************************)
Visible(c) == c \in 32..126 \/ c = 9

\* a header value given by its character codes
HeaderBytes(codes) ==
    [text |-> codes, opaque |-> \E i \in 1..Len(codes) : ~Visible(codes[i])]

\* a header value of visible ASCII, given as a string
HeaderText(str) == [text |-> str, opaque |-> FALSE]

\* a header value that is not visible ASCII
OpaqueHeader == [text |-> "", opaque |-> TRUE]

to_str(value) == IF value.opaque THEN Err("ToStrError") ELSE Ok(value.text)

Headers(signature, event) ==
    [x_hub_signature_256 |-> signature, x_github_event |-> event]

BAD_REQUEST == 400

UNAUTHORIZED == 401

Log(level, text, args) == [level |-> level, text |-> text, args |-> args]

(***************************************************************************)
(* handle_webhook, lines 110-121: the authentication gate.  The result is  *)
(* Ok when the request passes, or the status it is refused with; calls     *)
(* names the functions invoked and log the lines written.                  *)
(***************************************************************************)
Gate(result, calls, log) == [result |-> result, calls |-> calls, log |-> log]

\* the gate verifies whenever a signature header is present, secret or not
authenticate_without_config_gate(secret, headers, body) ==
    IF headers.x_hub_signature_256.some THEN
        LET signature_str == to_str(headers.x_hub_signature_256.val)
            key == IF secret.some THEN secret.val ELSE <<>>
        IN  IF ~signature_str.ok THEN Gate(Err(BAD_REQUEST), <<>>, <<>>)
            ELSE IF ~verify_signature(key, body, signature_str.val) THEN
                Gate(Err(UNAUTHORIZED), <<"verify_signature">>,
                     <<Log("warn", "Invalid webhook signature", <<>>)>>)
            ELSE Gate(Ok(<<>>), <<"verify_signature">>, <<>>)
    ELSE IF secret.some THEN
        Gate(Err(UNAUTHORIZED), <<>>, <<Log("warn", "Missing webhook signature", <<>>)>>)
    ELSE Gate(Ok(<<>>), <<>>, <<>>)

\* the else branch of the header test left out: a missing header passes
authenticate_missing_passes(secret, headers, body) ==
    IF secret.some /\ headers.x_hub_signature_256.some THEN
        LET signature_str == to_str(headers.x_hub_signature_256.val)
        IN  IF ~signature_str.ok THEN Gate(Err(BAD_REQUEST), <<>>, <<>>)
            ELSE IF ~verify_signature(secret.val, body, signature_str.val) THEN
                Gate(Err(UNAUTHORIZED), <<"verify_signature">>,
                     <<Log("warn", "Invalid webhook signature", <<>>)>>)
            ELSE Gate(Ok(<<>>), <<"verify_signature">>, <<>>)
    ELSE Gate(Ok(<<>>), <<>>, <<>>)

\* the verification result is logged but not acted on
authenticate_warn_only(secret, headers, body) ==
    IF secret.some THEN
        IF headers.x_hub_signature_256.some THEN
            LET signature_str == to_str(headers.x_hub_signature_256.val)
            IN  IF ~signature_str.ok THEN Gate(Err(BAD_REQUEST), <<>>, <<>>)
                ELSE IF ~verify_signature(secret.val, body, signature_str.val) THEN
                    Gate(Ok(<<>>), <<"verify_signature">>,
                         <<Log("warn", "Invalid webhook signature", <<>>)>>)
                ELSE Gate(Ok(<<>>), <<"verify_signature">>, <<>>)
        ELSE Gate(Err(UNAUTHORIZED), <<>>,
                  <<Log("warn", "Missing webhook signature", <<>>)>>)
    ELSE Gate(Ok(<<>>), <<>>, <<>>)

authenticate(secret, headers, body) ==
    IF secret.some THEN
        IF headers.x_hub_signature_256.some THEN
            LET signature_str == to_str(headers.x_hub_signature_256.val)
            IN  IF ~signature_str.ok THEN Gate(Err(BAD_REQUEST), <<>>, <<>>)
                ELSE IF ~verify_signature(secret.val, body, signature_str.val) THEN
                    Gate(Err(UNAUTHORIZED), <<"verify_signature">>,
                         <<Log("warn", "Invalid webhook signature", <<>>)>>)
                ELSE Gate(Ok(<<>>), <<"verify_signature">>, <<>>)
        ELSE Gate(Err(UNAUTHORIZED), <<>>,
                  <<Log("warn", "Missing webhook signature", <<>>)>>)
    ELSE Gate(Ok(<<>>), <<>>, <<>>)

(***************************************************************************)
(* handle_webhook, lines 123-126: the decoding step.                       *)
(***************************************************************************)
\* the decoding error is logged and an empty envelope stands in for it
decode_lenient(body) ==
    LET payload == from_slice(body)
    IN  IF payload.ok THEN Gate(payload, <<"from_slice">>, <<>>)
        ELSE Gate(Ok([n \in FieldNames(WebhookPayload) |-> None]), <<"from_slice">>,
                  <<Log("error", "Failed to parse webhook payload: {}", <<payload.err>>)>>)

decode(body) ==
    LET payload == from_slice(body)
    IN  IF payload.ok THEN Gate(payload, <<"from_slice">>, <<>>)
        ELSE Gate(Err(BAD_REQUEST), <<"from_slice">>,
                  <<Log("error", "Failed to parse webhook payload: {}", <<payload.err>>)>>)

(***************************************************************************)
(* handle_pull_request_event (lines 176-197).                              *)
(***************************************************************************)
\* a pull request without its repository is refused
handle_pull_request_event_requires_repository(payload) ==
    IF payload.action.some /\ payload.pull_request.some /\ ~payload.repository.some
    THEN Gate(Err(BAD_REQUEST), <<"handle_pull_request_event">>, <<>>)
    ELSE Gate(Ok(<<>>), <<"handle_pull_request_event">>, <<>>)

handle_pull_request_event(payload) ==
    Gate(Ok(<<>>), <<"handle_pull_request_event">>,
         IF payload.action.some /\ payload.pull_request.some /\ payload.repository.some
         THEN LET action == payload.action.val
                  args == <<payload.pull_request.val.title,
                            payload.repository.val.full_name>>
              IN  CASE action = "opened" -> <<Log("info", "New PR opened: {} in {}", args)>>
                    [] action = "closed" -> <<Log("info", "PR closed: {} in {}", args)>>
                    [] action = "synchronize" ->
                           <<Log("info", "PR updated: {} in {}", args)>>
                    [] OTHER -> <<>>
         ELSE <<>>)

(***************************************************************************)
(* handle_webhook, lines 128-173: the event kind and the dispatch.         *)
(***************************************************************************)
event_type_of(headers) ==
    IF headers.x_github_event.some /\ to_str(headers.x_github_event.val).ok
    THEN to_str(headers.x_github_event.val).val
    ELSE "unknown"

WebhookResponse(message, processed) == [message |-> message, processed |-> processed]

Success(event_type) ==
    Ok(WebhookResponse("Successfully processed " \o event_type \o " event", TRUE))

\* the fall-through arm refuses the kinds it does not know
dispatch_rejects_unknown(event_type, payload) ==
    IF event_type \in {"push", "pull_request", "issues", "ping"}
    THEN Gate(Success(event_type), <<"dispatch">>, <<>>)
    ELSE Gate(Err(BAD_REQUEST), <<"dispatch">>, <<>>)

dispatch(event_type, payload) ==
    LET received == <<Log("info", "Received {} event", <<event_type>>)>>
    IN
    IF event_type = "push" THEN
        Gate(Success(event_type), <<"dispatch">>,
             received \o <<Log("info", "Processing push event for repository: {:?}",
                               <<IF payload.repository.some
                                 THEN Some(payload.repository.val.full_name)
                                 ELSE None>>)>>)
    ELSE IF event_type = "pull_request" THEN
        IF payload.pull_request.some THEN
            LET pr == payload.pull_request.val
                handled == handle_pull_request_event(payload)
                processing == <<Log("info", "Processing pull request #{}: {} ({})",
                                    <<pr.number, pr.title, pr.state>>)>>
            IN  IF handled.result.ok THEN
                    Gate(Success(event_type), <<"dispatch">> \o handled.calls,
                         received \o processing \o handled.log)
                ELSE Gate(handled.result, <<"dispatch">> \o handled.calls,
                          received \o processing \o handled.log)
        ELSE Gate(Success(event_type), <<"dispatch">>, received)
    ELSE IF event_type = "issues" THEN
        Gate(Success(event_type), <<"dispatch">>,
             received \o (IF payload.issue.some
                          THEN <<Log("info", "Processing issue #{}: {} ({})",
                                     <<payload.issue.val.number, payload.issue.val.title,
                                       payload.issue.val.state>>)>>
                          ELSE <<>>))
    ELSE IF event_type = "ping" THEN
        Gate(Success(event_type), <<"dispatch">>,
             received \o <<Log("info",
                               "Received ping event - webhook is configured correctly!",
                               <<>>)>>)
    ELSE Gate(Success(event_type), <<"dispatch">>,
              received \o <<Log("info", "Unhandled event type: {}", <<event_type>>)>>)

(***************************************************************************)
(* The inputs.                                                             *)
(***************************************************************************)
\* the hex digits of a signature in upper case, which hex::decode accepts
UpperHex(codes) ==
    [i \in 1..Len(codes) |->
        IF i > Len(Sha256Prefix) /\ codes[i] \in 97..102 THEN codes[i] - 32 ELSE codes[i]]

Digits(signature) == SubSeq(signature, Len(Sha256Prefix) + 1, Len(signature))

\* What is left of a well-formed signature that is damaged: "sha1=" and the
\* digits, the digits without a tag, an odd number of digits, a digest one
\* byte short, digits that are not hex, an upper-case tag.
Malformed(signature) ==
    { <<115, 104, 97, 49, 61>> \o Digits(signature),
      Digits(signature),
      SubSeq(signature, 1, Len(signature) - 1),
      SubSeq(signature, 1, Len(signature) - 2),
      Sha256Prefix \o <<122, 122>> \o SubSeq(Digits(signature), 3, Len(Digits(signature))),
      <<83, 72, 65>> \o SubSeq(signature, 4, Len(signature)) }

\* a payload other than body: its first byte changed, or one byte for none
OtherPayload(body) ==
    IF body = <<>> THEN <<0>> ELSE [body EXCEPT ![1] = (body[1] + 1) % Radix]

\* The secret the sender signs with: the configured one, and some secret
\* when none is configured.
SenderSecret(secret) == IF secret.some THEN secret.val ELSE <<1>>

\* a secret other than the sender's
WrongSecret(secret) == IF SenderSecret(secret) = <<>> THEN <<1>> ELSE <<>>

\* The signature headers of a request with this body: none, the sender's
\* signature, the same in upper-case hex, the signature under another
\* secret, the signature of another payload, the damaged signatures, and
\* the signature followed by a byte that is not visible ASCII.
SignatureHeaders(secret, body) ==
    LET signature == sign(SenderSecret(secret), body)
    IN  {None}
        \cup {Some(HeaderBytes(signature)),
              Some(HeaderBytes(UpperHex(signature))),
              Some(HeaderBytes(sign(WrongSecret(secret), body))),
              Some(HeaderBytes(sign(SenderSecret(secret), OtherPayload(body)))),
              Some(HeaderBytes(signature \o <<255>>))}
        \cup {Some(HeaderBytes(t)) : t \in Malformed(signature)}

\* the four kinds the match names, and two it does not: a kind of the host
\* that has no arm, and a recognized kind in another case
EventKinds == {"push", "pull_request", "issues", "ping", "deployment_status", "Push"}

EventHeaders ==
    {None, Some(OpaqueHeader)} \cup {Some(HeaderText(k)) : k \in EventKinds}

Request(headers, body) == [headers |-> headers, body |-> body]

\* every request of the bounded sets
Requests(secret) ==
    UNION {{Request(Headers(signature, event), body) :
               signature \in SignatureHeaders(secret, body), event \in EventHeaders} :
           body \in Payloads}

\* the deliveries replayed under concurrency: a signature header that is
\* absent, valid for SenderSecret or invalid, on a body that decodes and on
\* one that does not
ReplayBodies == {<<0>>, <<>>}

ReplaySignatures(secret, body) ==
    {None, Some(HeaderBytes(sign(SenderSecret(secret), body))),
     Some(HeaderBytes(Digits(sign(SenderSecret(secret), body))))}

ReplayEvents == {Some(HeaderText("pull_request"))}

ReplayRequests(secret) ==
    UNION {{Request(Headers(signature, event), body) :
               signature \in ReplaySignatures(secret, body), event \in ReplayEvents} :
           body \in ReplayBodies}

(***************************************************************************)
(* The state.  webhook_secret is AppState.webhook_secret.  slots holds the *)
(* invocations of handle_webhook in flight: where each stands (pc), its    *)
(* request, the envelope once decoded, the response once made, the         *)
(* functions it called and the lines it logged; prev is the response the   *)
(* sender got to the previous delivery of the same request.  call is one   *)
(* invocation of verify_signature on its own.                              *)
(***************************************************************************)
Slots == 1..MaxInFlight

Idle ==
    [pc |-> "idle", headers |-> Headers(None, None), body |-> <<>>, payload |-> None,
     response |-> None, calls |-> <<>>, log |-> <<>>, prev |-> None]

NoCall == [pc |-> "none", secret |-> <<>>, payload |-> <<>>, signature |-> <<>>,
           result |-> FALSE]

\* main: the secret is an Option<String> from the arguments or the environment
Init ==
    /\ webhook_secret \in {None} \cup {Some(s) : s \in Secrets}
    /\ slots = [i \in Slots |-> Idle]
    /\ call = NoCall

\* handle_webhook is invoked with one of the requests.
Receive(i, requests) ==
    /\ slots[i].pc = "idle"
    /\ \E request \in requests :
          slots' = [slots EXCEPT ![i] =
                       [Idle EXCEPT !.pc = "authenticate",
                                    !.headers = request.headers,
                                    !.body = request.body]]
    /\ UNCHANGED <<webhook_secret, call>>

\* the verdict of the gate is shared: an invocation passes unexamined while
\* another one that passed is still in flight
Authenticate_shared_verdict(i) ==
    /\ slots[i].pc = "authenticate"
    /\ LET shared == \E j \in Slots \ {i} : slots[j].pc \in {"decode", "dispatch"}
           gate == IF shared THEN Gate(Ok(<<>>), <<>>, <<>>)
                   ELSE authenticate(webhook_secret, slots[i].headers, slots[i].body)
       IN  slots' = [slots EXCEPT ![i] =
                        [@ EXCEPT !.pc = IF gate.result.ok THEN "decode" ELSE "responded",
                                  !.response = IF gate.result.ok THEN None
                                               ELSE Some(gate.result),
                                  !.calls = @ \o gate.calls,
                                  !.log = @ \o gate.log]]
    /\ UNCHANGED <<webhook_secret, call>>

Authenticate(i) ==
    /\ slots[i].pc = "authenticate"
    /\ LET gate == authenticate(webhook_secret, slots[i].headers, slots[i].body)
       IN  slots' = [slots EXCEPT ![i] =
                        [@ EXCEPT !.pc = IF gate.result.ok THEN "decode" ELSE "responded",
                                  !.response = IF gate.result.ok THEN None
                                               ELSE Some(gate.result),
                                  !.calls = @ \o gate.calls,
                                  !.log = @ \o gate.log]]
    /\ UNCHANGED <<webhook_secret, call>>

Decode(i) ==
    /\ slots[i].pc = "decode"
    /\ LET decoded == decode(slots[i].body)
       IN  slots' = [slots EXCEPT ![i] =
                        [@ EXCEPT !.pc = IF decoded.result.ok THEN "dispatch"
                                         ELSE "responded",
                                  !.payload = IF decoded.result.ok
                                              THEN Some(decoded.result.val) ELSE None,
                                  !.response = IF decoded.result.ok THEN None
                                               ELSE Some(decoded.result),
                                  !.calls = @ \o decoded.calls,
                                  !.log = @ \o decoded.log]]
    /\ UNCHANGED <<webhook_secret, call>>

Dispatch(i) ==
    /\ slots[i].pc = "dispatch"
    /\ LET done == dispatch(event_type_of(slots[i].headers), slots[i].payload.val)
       IN  slots' = [slots EXCEPT ![i] =
                        [@ EXCEPT !.pc = "responded",
                                  !.response = Some(done.result),
                                  !.calls = @ \o done.calls,
                                  !.log = @ \o done.log]]
    /\ UNCHANGED <<webhook_secret, call>>

\* the response is returned and everything the invocation held is dropped
Return(i) ==
    /\ slots[i].pc = "responded"
    /\ slots' = [slots EXCEPT ![i] = Idle]
    /\ UNCHANGED <<webhook_secret, call>>

\* the sender delivers the same request again (its at-least-once redelivery)
Redeliver(i) ==
    /\ slots[i].pc = "responded"
    /\ slots' = [slots EXCEPT ![i] =
                    [Idle EXCEPT !.pc = "authenticate", !.headers = slots[i].headers,
                                 !.body = slots[i].body, !.prev = slots[i].response]]
    /\ UNCHANGED <<webhook_secret, call>>

\* One request at a time, over every request of the bounded sets.
Next ==
    \/ Receive(1, Requests(webhook_secret))
    \/ Authenticate(1)
    \/ Decode(1)
    \/ Dispatch(1)
    \/ Return(1)

Spec == Init /\ [][Next]_vars

\* Concurrent invocations, with redelivery, over the replayed deliveries.
NextConcurrent ==
    \E i \in Slots :
        \/ Receive(i, ReplayRequests(webhook_secret))
        \/ Authenticate(i)
        \/ Decode(i)
        \/ Dispatch(i)
        \/ Return(i)
        \/ Redeliver(i)

SpecConcurrent == Init /\ [][NextConcurrent]_vars

(***************************************************************************)
(* verify_signature on its own: the inputs are drawn at the start and one  *)
(* call applies the function.                                              *)
(***************************************************************************)
VerifySignatures(secret, payload) ==
    {sign(s, payload) : s \in Secrets}
    \cup {sign(secret, q) : q \in Mutations(payload)}
    \cup Malformed(sign(secret, payload))
    \cup {UpperHex(sign(secret, payload))}

InitVerify ==
    /\ webhook_secret = None
    /\ slots = [i \in Slots |-> Idle]
    /\ \E secret \in Secrets : \E payload \in Payloads :
          \E signature \in VerifySignatures(secret, payload) :
             call = [pc |-> "ready", secret |-> secret, payload |-> payload,
                     signature |-> signature, result |-> FALSE]

VerifyCall ==
    /\ call.pc = "ready"
    /\ call' = [call EXCEPT !.pc = "returned",
                            !.result = verify_signature(call.secret, call.payload,
                                                        call.signature)]
    /\ UNCHANGED <<webhook_secret, slots>>

NextVerify == VerifyCall

SpecVerify == InitVerify /\ [][NextVerify]_vars

(***************************************************************************)
(* Vocabulary of the properties.                                           *)
(***************************************************************************)
Responded(i) == slots[i].pc = "responded"

Called(i, f) == \E k \in 1..Len(slots[i].calls) : slots[i].calls[k] = f

Refused(i, status) ==
    /\ slots[i].response.some
    /\ ~slots[i].response.val.ok
    /\ slots[i].response.val.err = status

Succeeded(i) == slots[i].response.some /\ slots[i].response.val.ok

SucceededWith(i, message) ==
    /\ Succeeded(i)
    /\ slots[i].response.val.val.message = message
    /\ slots[i].response.val.val.processed = TRUE

SameResult(r1, r2) ==
    /\ r1.ok = r2.ok
    /\ IF r1.ok THEN r1.val = r2.val ELSE r1.err = r2.err

SignatureOmitted(i) == ~slots[i].headers.x_hub_signature_256.some

\* the signature header is text that verify_signature accepts for the body
SignatureVerifies(i) ==
    /\ webhook_secret.some
    /\ slots[i].headers.x_hub_signature_256.some
    /\ to_str(slots[i].headers.x_hub_signature_256.val).ok
    /\ verify_signature(webhook_secret.val, slots[i].body,
                        to_str(slots[i].headers.x_hub_signature_256.val).val)

EventIs(i, kind) ==
    /\ slots[i].headers.x_github_event.some
    /\ ~slots[i].headers.x_github_event.val.opaque
    /\ slots[i].headers.x_github_event.val.text = kind

\* the request got past the authentication gate
PassedGate(i) == slots[i].pc \in {"decode", "dispatch"} \/ Called(i, "from_slice")

\* a redelivered request has the response of its previous delivery, and two
\* answered requests with the same headers and body have the same response
RedeliveryAnsweredAlike ==
    \A i \in Slots :
        /\ (Responded(i) /\ slots[i].prev.some) =>
               SameResult(slots[i].response.val, slots[i].prev.val)
        /\ \A j \in Slots :
               (Responded(i) /\ Responded(j) /\ slots[i].body = slots[j].body
                  /\ slots[i].headers = slots[j].headers) =>
                   SameResult(slots[i].response.val, slots[j].response.val)

SecretReadOnly == webhook_secret' = webhook_secret

\* the body that stands for Documents[k]
BodyOf(k) == CHOOSE b \in Payloads : SeqCode(b) = k

(***************************************************************************)
(* C1.  While a secret is configured, a request without the                *)
(* x-hub-signature-256 header never gets past the authentication gate: in  *)
(* every state it is still to be authenticated or has been answered        *)
(* unauthorized, its payload was never decoded (from_slice was not called, *)
(* no envelope is held) and nothing was dispatched, whatever its body and  *)
(* its x-github-event header.                                              *)
(***************************************************************************)
C1_MissingSignatureUnauthorized ==
    \A i \in Slots :
        (slots[i].pc # "idle" /\ webhook_secret.some /\ SignatureOmitted(i)) =>
            /\ slots[i].pc \in {"authenticate", "responded"}
            /\ Responded(i) => Refused(i, UNAUTHORIZED)
            /\ ~slots[i].payload.some
            /\ ~Called(i, "from_slice")
            /\ ~Called(i, "dispatch")

\* the pull_request body of the end-to-end test, unsigned, has been refused
C1_Witness ==
    /\ webhook_secret.some
    /\ Responded(1)
    /\ SignatureOmitted(1)
    /\ EventIs(1, "pull_request")
    /\ slots[1].body = BodyOf(11)
    /\ Refused(1, UNAUTHORIZED)

(***************************************************************************)
(* C2.  While a secret is configured, every answered request whose         *)
(* signature header is present but is not a valid signature of the body is *)
(* answered unauthorized, whatever the reason it does not verify.          *)
(***************************************************************************)
C2_InvalidSignatureUnauthorized ==
    \A i \in Slots :
        (Responded(i) /\ webhook_secret.some /\ ~SignatureOmitted(i)
           /\ ~SignatureVerifies(i)) => Refused(i, UNAUTHORIZED)

(***************************************************************************)
(* C3.  verify_signature(s, p, sign(s, p)) is true for every secret s and  *)
(* payload p, the empty ones included.                                     *)
(***************************************************************************)
C3_SignThenVerify ==
    (call.pc = "returned" /\ call.signature = sign(call.secret, call.payload)) =>
        call.result = TRUE

\* the empty secret and the empty payload
C3_Witness ==
    /\ call.pc = "returned"
    /\ call.secret = <<>>
    /\ call.payload = <<>>
    /\ call.signature = sign(<<>>, <<>>)
    /\ call.result = TRUE

(***************************************************************************)
(* C4.  verify_signature(s, p', sign(s, p)) is false whenever p' differs   *)
(* from p in exactly one byte.                                             *)
(***************************************************************************)
C4_MutatedPayloadRejected ==
    (call.pc = "returned"
       /\ \E p \in Payloads : /\ call.payload \in Mutations(p)
                              /\ call.signature = sign(call.secret, p)) =>
        call.result = FALSE

\* the payload <<1>> under the signature of the payload <<0>>
C4_Witness ==
    /\ call.pc = "returned"
    /\ call.payload = <<1>>
    /\ call.signature = sign(call.secret, <<0>>)
    /\ call.result = FALSE

(***************************************************************************)
(* C5.  A request that passed the authentication gate and whose body does  *)
(* not decode into the envelope is answered bad-request and is never       *)
(* dispatched, whatever its event kind header.                             *)
(***************************************************************************)
C5_MalformedPayloadBadRequest ==
    \A i \in Slots :
        (PassedGate(i) /\ ~from_slice(slots[i].body).ok) =>
            /\ slots[i].pc \in {"decode", "responded"}
            /\ Responded(i) => Refused(i, BAD_REQUEST)
            /\ ~slots[i].payload.some
            /\ ~Called(i, "dispatch")

\* pull_request.number given as a string, under an unrecognized event kind
C5_Witness ==
    /\ Responded(1)
    /\ Called(1, "from_slice")
    /\ slots[1].body = BodyOf(22)
    /\ EventIs(1, "deployment_status")
    /\ Refused(1, BAD_REQUEST)

(***************************************************************************)
(* C6.  Dispatching an event kind that is none of push, pull_request,      *)
(* issues, ping answers processed = true with the message "Successfully    *)
(* processed <kind> event" naming that kind, for every decoded envelope.   *)
(***************************************************************************)
C6_UnrecognizedKindProcessed ==
    \A i \in Slots : \A kind \in EventKinds \ {"push", "pull_request", "issues", "ping"} :
        (Called(i, "dispatch") /\ EventIs(i, kind)) =>
            SucceededWith(i, "Successfully processed " \o kind \o " event")

C6_Witness ==
    /\ Responded(1)
    /\ Called(1, "dispatch")
    /\ EventIs(1, "deployment_status")
    /\ SucceededWith(1, "Successfully processed deployment_status event")

(***************************************************************************)
(* C7.  A pull_request event whose body passed the gate and decoded is     *)
(* answered "Successfully processed pull_request event" with processed =   *)
(* true, for every action, with or without pull_request, with or without   *)
(* repository.                                                             *)
(***************************************************************************)
C7_PullRequestProcessed ==
    \A i \in Slots :
        (Responded(i) /\ slots[i].payload.some /\ EventIs(i, "pull_request")) =>
            SucceededWith(i, "Successfully processed pull_request event")

\* signed, action "opened", pull_request populated, repository absent
C7_Witness ==
    /\ Responded(1)
    /\ SignatureVerifies(1)
    /\ EventIs(1, "pull_request")
    /\ slots[1].payload.some
    /\ slots[1].payload.val.action = Some("opened")
    /\ slots[1].payload.val.pull_request.some
    /\ ~slots[1].payload.val.repository.some
    /\ Called(1, "handle_pull_request_event")
    /\ SucceededWith(1, "Successfully processed pull_request event")

(***************************************************************************)
(* C8.  With no secret configured, verify_signature is never called, and   *)
(* two answered requests with the same body and the same event header have *)
(* the same response whatever their signature headers are.                 *)
(***************************************************************************)
C8_NoSecretBypassesVerifier ==
    ~webhook_secret.some =>
        /\ \A i \in Slots : ~Called(i, "verify_signature")
        /\ \A i, j \in Slots :
              (Responded(i) /\ Responded(j) /\ slots[i].body = slots[j].body
                 /\ slots[i].headers.x_github_event = slots[j].headers.x_github_event) =>
                  SameResult(slots[i].response.val, slots[j].response.val)

\* the same body answered once unsigned and once with a header that is no signature
C8_Witness ==
    /\ ~webhook_secret.some
    /\ Responded(1)
    /\ Responded(2)
    /\ slots[1].body = <<0>>
    /\ slots[2].body = <<0>>
    /\ SignatureOmitted(1)
    /\ ~SignatureOmitted(2)
    /\ ~starts_with(slots[2].headers.x_hub_signature_256.val.text, Sha256Prefix)
    /\ Succeeded(1)
    /\ Succeeded(2)

(***************************************************************************)
(* C9.  Under any interleaving of concurrent invocations: a redelivered    *)
(* request gets the response its previous delivery got, two answered       *)
(* requests with the same headers and body have the same response, and no  *)
(* step changes the configured secret.                                     *)
(***************************************************************************)
C9_IdempotentUnderConcurrency ==
    []RedeliveryAnsweredAlike /\ [][SecretReadOnly]_vars

\* a redelivered request is answered while another invocation is in flight
C9_Witness ==
    /\ Responded(1)
    /\ slots[1].prev.some
    /\ slots[2].pc \in {"decode", "dispatch"}

(***************************************************************************)
(* C10.  A request is dispatched or answered with success only if its body *)
(* decoded and either no secret is configured or its signature header is   *)
(* present and verify_signature accepts it for that very body.             *)
(***************************************************************************)
C10_SuccessOnlyIfAuthenticated ==
    \A i \in Slots :
        (Succeeded(i) \/ Called(i, "dispatch") \/ slots[i].pc = "dispatch") =>
            /\ slots[i].payload.some
            /\ from_slice(slots[i].body).ok
            /\ ~webhook_secret.some \/ SignatureVerifies(i)

\* a success under a configured secret, the signature in upper-case hex
C10_Witness ==
    /\ webhook_secret.some
    /\ Succeeded(1)
    /\ SignatureVerifies(1)
    /\ slots[1].headers.x_hub_signature_256.val.text
          # sign(webhook_secret.val, slots[1].body)

====
